---------------------------- MODULE Spec2Model ----------------------------
(***************************************************************************)
(* untis_changes (src/src/main.rs): the timetable extractor                *)
(* parse_timetable, the time decoder json_value_to_time, the per-period    *)
(* renderer Period::speakable_text and the sort/filter/render tail of the  *)
(* speakable request handler.                                              *)
(*                                                                         *)
(* JSON values are tagged records (Num, Str, Bool, Arr); a JSON object is  *)
(* a record whose domain is the set of keys it has, so a missing field is  *)
(* a key outside DOMAIN.  Rust's Option and Result are the records         *)
(* None / Some(v) and Err / Ok(v).  Text is TLA+ strings, built with \o.   *)
(* TLC keeps the identity of a string held in a state but not its          *)
(* non-ASCII characters, so a text built from strings of a state is         *)
(* compared with a text built from the same strings of the state.           *)
(***************************************************************************)
EXTENDS Integers, Sequences, FiniteSets, TLC

VARIABLES
    pc,                 \* position of the modelled code
    value, time,        \* json_value_to_time: its argument and its result
    period, text,       \* Period::speakable_text: self and the returned String
    teachers, subjects, rooms,      \* parse_timetable: the three HashMaps
    room, teacher, subject,         \* parse_timetable: the per-period Options
    serialized_periods,             \* parse_timetable: the Vec<Period> being built
    result,                         \* parse_timetable: what it returned
    data, person_id,                \* parse_timetable: the navigated "data" object, the argument person_id
    nelements,                      \* assignment elements of the current record read so far
    source, malformed,              \* history: the period records read, whether anything read was malformed
    unresolved,                     \* history: an assignment element read whose kind's map has no entry for its id
    timetable, today, lines, output, \* speakable: the Vec<Period>, the local date, the collected Vec<String>, the response
    cursor,                         \* speakable: the iterator's position in the Vec
    input, started, readings,       \* history: the list before sorting, the date the request began on, the dates Local::now() returned
    rendered,                       \* history: the periods the lines were rendered from
    payload, consumed,              \* parse_timetable: its argument timetable, the catalog elements the first loop has taken
    userinfo,                       \* speakable: the UserInfo login returned
    session,                        \* the remote service: whether the session of this request is open
    requests, steps                 \* history: the requests sent to the service, the steps of the handler that were started

vars == <<pc, value, time, period, text, teachers, subjects, rooms, room, teacher,
          subject, serialized_periods, result, data, person_id, nelements, source,
          malformed, unresolved, timetable, today, lines, output, cursor, input, started,
          readings, rendered, payload, consumed, userinfo, session, requests, steps>>

---------------------------------------------------------------------------
(* Option, Result and serde_json::Value *)

None == [none |-> TRUE]
Some(v) == [some |-> v]
IsSome(o) == "some" \in DOMAIN o

Err == [err |-> TRUE]
Ok(v) == [ok |-> v]
IsOk(r) == "ok" \in DOMAIN r
\* a panic (an unwrap of a failure), as an outcome of its own
Panic == [panic |-> TRUE]

Num(n) == [num |-> n]
Str(s) == [str |-> s]
Bool(b) == [bool |-> b]
Arr(a) == [arr |-> a]

\* Value::get(key): the member, or None when the value is no object or lacks it
get(v, key) == IF key \in DOMAIN v THEN Some(v[key]) ELSE None
\* Value::as_u64: None for anything but a non-negative integer
as_u64(v) == IF "num" \in DOMAIN v /\ v.num >= 0 THEN Some(v.num) ELSE None
as_str(v) == IF "str" \in DOMAIN v THEN Some(v.str) ELSE None
as_bool(v) == IF "bool" \in DOMAIN v THEN Some(v.bool) ELSE None
as_array(v) == IF "arr" \in DOMAIN v THEN Some(v.arr) ELSE None

---------------------------------------------------------------------------
(* Decimal text: u64::to_string and str::parse *)

Digits == "0123456789"
DigitStr(d) == SubSeq(Digits, d + 1, d + 1)
IsDigit(c) == \E d \in 0..9 : DigitStr(d) = c
DigitVal(c) == CHOOSE d \in 0..9 : DigitStr(d) = c

RECURSIVE to_string(_)
to_string(n) ==
    IF n < 10 THEN DigitStr(n) ELSE to_string(n \div 10) \o DigitStr(n % 10)

\* str::parse::<u32>: Err on an empty string or a character that is no digit
RECURSIVE parse_digits(_, _)
parse_digits(s, acc) ==
    IF Len(s) = 0 THEN Ok(acc)
    ELSE IF ~IsDigit(SubSeq(s, 1, 1)) THEN Err
    ELSE parse_digits(SubSeq(s, 2, Len(s)), acc * 10 + DigitVal(SubSeq(s, 1, 1)))
parse(s) == IF Len(s) = 0 THEN Err ELSE parse_digits(s, 0)

---------------------------------------------------------------------------
(* chrono::NaiveTime and json_value_to_time *)

from_hms_opt(hour, min, sec) ==
    IF hour < 24 /\ min < 60 /\ sec < 60
    THEN Some([hour |-> hour, minute |-> min, second |-> sec])
    ELSE None

\* the len == 3 branch slicing as the len == 4 branch does
json_value_to_time_sliced4(v) ==
    LET n == as_u64(v) IN
    IF ~IsSome(n) THEN Err
    ELSE LET str == to_string(n.some) IN
         IF Len(str) \notin {3, 4} THEN Err
         ELSE LET hours == parse(SubSeq(str, 1, 2))
                  minutes == parse(SubSeq(str, 3, Len(str)))
              IN IF ~IsOk(hours) \/ ~IsOk(minutes) THEN Panic
                 ELSE LET t == from_hms_opt(hours.ok, minutes.ok, 0) IN
                      IF IsSome(t) THEN Ok(t.some) ELSE Err

json_value_to_time(v) ==
    LET n == as_u64(v) IN
    IF ~IsSome(n) THEN Err
    ELSE LET str == to_string(n.some) IN
         IF Len(str) \notin {3, 4} THEN Err
         ELSE LET hours == parse(IF Len(str) = 4 THEN SubSeq(str, 1, 2) ELSE SubSeq(str, 1, 1))
                  minutes == parse(IF Len(str) = 4 THEN SubSeq(str, 3, 4) ELSE SubSeq(str, 2, 3))
              IN IF ~IsOk(hours) \/ ~IsOk(minutes) THEN Panic
                 ELSE LET t == from_hms_opt(hours.ok, minutes.ok, 0) IN
                      IF IsSome(t) THEN Ok(t.some) ELSE Err

---------------------------------------------------------------------------
(* The data model: ElementState, PeriodState, the Original* catalog records,
   Teacher / Subject / Room and Period *)

ElementStates == {"Regular", "Absent", "Substituted"}
PeriodStates == {"Standard", "Substitution", "Cancel"}

hm(h, m) == [hour |-> h, minute |-> m, second |-> 0]
ymd(y, m, d) == [year |-> y, month |-> m, day |-> d]

\* NaiveTime::format("%H:%M"): two digits each, zero-padded
Pad2(n) == IF n < 10 THEN "0" \o to_string(n) ELSE to_string(n)
\* "%-H:%M": the hour without its padding
format_unpadded(t) == to_string(t.hour) \o ":" \o Pad2(t.minute)
format(t) == Pad2(t.hour) \o ":" \o Pad2(t.minute)

---------------------------------------------------------------------------
(* Period::speakable_text *)

\* lines 330-348: what the teacher branch pushes onto out
teacher_clause(self) ==
    IF ~IsSome(self.teacher) THEN ""
    ELSE LET t == self.teacher.some IN
         CASE t.state = "Regular" -> ""
           [] t.state = "Absent" ->
                IF ~IsSome(t.original_teacher) THEN ""
                ELSE "Unterricht ohne Lehrer (von '" \o t.original_teacher.some.name \o "'); "
           [] t.state = "Substituted" ->
                IF ~IsSome(t.original_teacher) THEN ""
                ELSE "Lehrerwechsel von '" \o t.original_teacher.some.name
                         \o "' zu '" \o t.name \o "'; "

\* lines 349-367: what the room branch pushes onto out
room_clause(self) ==
    IF ~IsSome(self.room) THEN ""
    ELSE LET r == self.room.some IN
         CASE r.state = "Regular" -> ""
           [] r.state = "Absent" ->
                IF ~IsSome(r.original_room) THEN ""
                ELSE "Unterricht ohne Raum (von '" \o r.original_room.some.long_name \o "'); "
           [] r.state = "Substituted" ->
                IF ~IsSome(r.original_room) THEN ""
                ELSE "Raumwechsel von '" \o r.original_room.some.long_name
                         \o "' zu '" \o r.long_name \o "'; "

\* the room branch running before the teacher branch
speakable_text_room_first(self) ==
    IF ~IsSome(self.subject) THEN ""
    ELSE LET s == self.subject.some IN
         CASE self.state = "Cancel" ->
                s.long_name \o " fällt zwischen " \o format(self.start_time)
                    \o " und " \o format(self.end_time) \o " Uhr aus!"
           [] self.state = "Standard" ->
                "Im Fach " \o s.long_name \o " zwischen " \o format(self.start_time)
                    \o " und " \o format(self.end_time) \o " Uhr gibt es keine Änderungen!"
           [] self.state = "Substitution" ->
                "Änderung bei " \o s.long_name \o " zwischen " \o format(self.start_time)
                    \o " und " \o format(self.end_time) \o " Uhr: "
                    \o room_clause(self) \o teacher_clause(self)
                    \o self.substitution_text

speakable_text(self) ==
    IF ~IsSome(self.subject) THEN ""
    ELSE LET s == self.subject.some IN
         CASE self.state = "Cancel" ->
                s.long_name \o " fällt zwischen " \o format(self.start_time)
                    \o " und " \o format(self.end_time) \o " Uhr aus!"
           [] self.state = "Standard" ->
                "Im Fach " \o s.long_name \o " zwischen " \o format(self.start_time)
                    \o " und " \o format(self.end_time) \o " Uhr gibt es keine Änderungen!"
           [] self.state = "Substitution" ->
                "Änderung bei " \o s.long_name \o " zwischen " \o format(self.start_time)
                    \o " und " \o format(self.end_time) \o " Uhr: "
                    \o teacher_clause(self) \o room_clause(self)
                    \o self.substitution_text

---------------------------------------------------------------------------
(* chrono::NaiveDate::parse_from_str(text, "%Y%m%d") *)

Min(a, b) == IF a < b THEN a ELSE b

IsLeap(y) == (y % 4 = 0 /\ y % 100 # 0) \/ y % 400 = 0
DaysInMonth(y, m) ==
    IF m = 2 THEN (IF IsLeap(y) THEN 29 ELSE 28)
    ELSE IF m \in {4, 6, 9, 11} THEN 30 ELSE 31

from_ymd_opt(y, m, d) ==
    IF m >= 1 /\ m <= 12 /\ d >= 1 /\ d <= DaysInMonth(y, m)
    THEN Some(ymd(y, m, d)) ELSE None

\* %Y takes up to four digits, %m and %d one or two each (at least one), and
\* nothing may be left over
parse_from_str(s) ==
    LET ylen == Min(4, Len(s))
        rest1 == SubSeq(s, ylen + 1, Len(s))
        mlen == Min(2, Len(rest1))
        rest2 == SubSeq(rest1, mlen + 1, Len(rest1))
        dlen == Min(2, Len(rest2))
        rest3 == SubSeq(rest2, dlen + 1, Len(rest2))
    IN IF ylen = 0 \/ mlen = 0 \/ dlen = 0 \/ Len(rest3) > 0 THEN Err
       ELSE LET y == parse(SubSeq(s, 1, ylen))
                m == parse(SubSeq(rest1, 1, mlen))
                d == parse(SubSeq(rest2, 1, dlen))
            IN IF ~IsOk(y) \/ ~IsOk(m) \/ ~IsOk(d) THEN Err
               ELSE LET date == from_ymd_opt(y.ok, m.ok, d.ok) IN
                    IF IsSome(date) THEN Ok(date.some) ELSE Err

---------------------------------------------------------------------------
(* parse_timetable: field access and the HashMaps *)

\* value.get(key).ok_or(..)?.as_u64().ok_or(..)?  (and a serde u64 field)
req_u64(v, key) ==
    LET f == get(v, key) IN
    IF ~IsSome(f) THEN Err
    ELSE LET n == as_u64(f.some) IN IF IsSome(n) THEN Ok(n.some) ELSE Err
req_str(v, key) ==
    LET f == get(v, key) IN
    IF ~IsSome(f) THEN Err
    ELSE LET x == as_str(f.some) IN IF IsSome(x) THEN Ok(x.some) ELSE Err
req_bool(v, key) ==
    LET f == get(v, key) IN
    IF ~IsSome(f) THEN Err
    ELSE LET b == as_bool(f.some) IN IF IsSome(b) THEN Ok(b.some) ELSE Err
\* a serde Option<String> field: absent or null is None
opt_str(v, key) ==
    LET f == get(v, key) IN
    IF ~IsSome(f) \/ f.some = [null |-> TRUE] THEN Ok(None)
    ELSE LET x == as_str(f.some) IN IF IsSome(x) THEN Ok(Some(x.some)) ELSE Err

\* HashMap::insert and HashMap::get
insert(map, k, v) == [x \in DOMAIN map \cup {k} |-> IF x = k THEN v ELSE map[x]]
hash_get(map, k) == IF k \in DOMAIN map THEN Some(map[k]) ELSE None

\* serde_json::from_value::<OriginalTeacher>
from_value_teacher(e) ==
    LET id == req_u64(e, "id")
        name == req_str(e, "name")
        cvt == req_bool(e, "canViewTimetable")
        key == req_str(e, "externKey")
        cap == req_u64(e, "roomCapacity")
    IN IF ~(IsOk(id) /\ IsOk(name) /\ IsOk(cvt) /\ IsOk(key) /\ IsOk(cap)) THEN Err
       ELSE Ok([id |-> id.ok, name |-> name.ok, can_view_timetable |-> cvt.ok,
                extern_key |-> key.ok, room_capacity |-> cap.ok])

\* serde_json::from_value::<OriginalSubject>
from_value_subject(e) ==
    LET id == req_u64(e, "id")
        name == req_str(e, "name")
        long == req_str(e, "longName")
        disp == req_str(e, "displayname")
        alt == req_str(e, "alternatename")
        back == req_str(e, "backColor")
        cvt == req_bool(e, "canViewTimetable")
        cap == req_u64(e, "roomCapacity")
        fore == opt_str(e, "foreColor")
    IN IF ~(IsOk(id) /\ IsOk(name) /\ IsOk(long) /\ IsOk(disp) /\ IsOk(alt) /\ IsOk(back) /\ IsOk(cvt) /\ IsOk(cap) /\ IsOk(fore)) THEN Err
       ELSE Ok([id |-> id.ok, name |-> name.ok, long_name |-> long.ok,
                display_name |-> disp.ok, alternate_name |-> alt.ok,
                back_color |-> back.ok, can_view_timetable |-> cvt.ok,
                room_capacity |-> cap.ok, fore_color |-> fore.ok])

\* serde_json::from_value::<OriginalRoom>
from_value_room(e) ==
    LET id == req_u64(e, "id")
        name == req_str(e, "name")
        long == req_str(e, "longName")
        disp == req_str(e, "displayname")
        alt == req_str(e, "alternatename")
        cvt == req_bool(e, "canViewTimetable")
        cap == req_u64(e, "roomCapacity")
    IN IF ~(IsOk(id) /\ IsOk(name) /\ IsOk(long) /\ IsOk(disp) /\ IsOk(alt) /\ IsOk(cvt) /\ IsOk(cap)) THEN Err
       ELSE Ok([id |-> id.ok, name |-> name.ok, long_name |-> long.ok,
                displayname |-> disp.ok, alternatename |-> alt.ok,
                can_view_timetable |-> cvt.ok, room_capacity |-> cap.ok])

---------------------------------------------------------------------------
(* parse_timetable: the function's steps as operators *)

\* lines 426-439: document -> data, whose "elements" must be an array
navigate(doc) ==
    LET d1 == get(doc, "data") IN
    IF ~IsSome(d1) THEN Err
    ELSE LET d2 == get(d1.some, "result") IN
         IF ~IsSome(d2) THEN Err
         ELSE LET d3 == get(d2.some, "data") IN
              IF ~IsSome(d3) THEN Err
              ELSE LET els == get(d3.some, "elements") IN
                   IF ~IsSome(els) THEN Err
                   ELSE IF ~IsSome(as_array(els.some)) THEN Err
                   ELSE Ok(d3.some)

\* the catalog loop as strict as the assignment loop: an unknown tag is an error
parse_element_strict(element, t, s, r) ==
    LET element_type == req_u64(element, "type") IN
    IF ~IsOk(element_type) THEN Err
    ELSE LET element_id == req_u64(element, "id") IN
         IF ~IsOk(element_id) THEN Err
         ELSE CASE element_type.ok = 2 ->
                     LET x == from_value_teacher(element) IN
                     IF ~IsOk(x) THEN Err
                     ELSE Ok([teachers |-> insert(t, element_id.ok, x.ok),
                              subjects |-> s, rooms |-> r])
                [] element_type.ok = 3 ->
                     LET x == from_value_subject(element) IN
                     IF ~IsOk(x) THEN Err
                     ELSE Ok([teachers |-> t,
                              subjects |-> insert(s, element_id.ok, x.ok), rooms |-> r])
                [] element_type.ok = 4 ->
                     LET x == from_value_room(element) IN
                     IF ~IsOk(x) THEN Err
                     ELSE Ok([teachers |-> t, subjects |-> s,
                              rooms |-> insert(r, element_id.ok, x.ok)])
                [] OTHER -> Err

\* lines 441-469: one iteration of the catalog loop
parse_element(element, t, s, r) ==
    LET element_type == req_u64(element, "type") IN
    IF ~IsOk(element_type) THEN Err
    ELSE LET element_id == req_u64(element, "id") IN
         IF ~IsOk(element_id) THEN Err
         ELSE CASE element_type.ok = 2 ->
                     LET x == from_value_teacher(element) IN
                     IF ~IsOk(x) THEN Err
                     ELSE Ok([teachers |-> insert(t, element_id.ok, x.ok),
                              subjects |-> s, rooms |-> r])
                [] element_type.ok = 3 ->
                     LET x == from_value_subject(element) IN
                     IF ~IsOk(x) THEN Err
                     ELSE Ok([teachers |-> t,
                              subjects |-> insert(s, element_id.ok, x.ok), rooms |-> r])
                [] element_type.ok = 4 ->
                     LET x == from_value_room(element) IN
                     IF ~IsOk(x) THEN Err
                     ELSE Ok([teachers |-> t, subjects |-> s,
                              rooms |-> insert(r, element_id.ok, x.ok)])
                [] OTHER -> Ok([teachers |-> t, subjects |-> s, rooms |-> r])

\* lines 472-478: the requesting person's period array
get_periods(d, person) ==
    LET ep == get(d, "elementPeriods") IN
    IF ~IsSome(ep) THEN Err
    ELSE LET mine == get(ep.some, to_string(person)) IN
         IF ~IsSome(mine) THEN Err
         ELSE IF ~IsSome(as_array(mine.some)) THEN Err ELSE Ok(mine.some)

\* lines 487-491: the period record's "elements" array
period_elements(p) ==
    LET els == get(p, "elements") IN
    IF ~IsSome(els) THEN Err
    ELSE IF ~IsSome(as_array(els.some)) THEN Err ELSE Ok(els.some)

\* lines 508-518
element_state(element) ==
    LET st == req_str(element, "state") IN
    IF ~IsOk(st) THEN Err
    ELSE CASE st.ok = "ABSENT" -> Ok("Absent")
           [] st.ok = "REGULAR" -> Ok("Regular")
           [] st.ok = "SUBSTITUTED" -> Ok("Substituted")
           [] OTHER -> Err

\* impl From<&OriginalTeacher> for OriginalTeacher, and the two like it
into_teacher(val) ==
    [id |-> val.id, name |-> val.name, can_view_timetable |-> val.can_view_timetable,
     extern_key |-> val.extern_key, room_capacity |-> val.room_capacity]
into_subject(val) ==
    [id |-> val.id, name |-> val.name, long_name |-> val.long_name,
     display_name |-> val.display_name, alternate_name |-> val.alternate_name,
     back_color |-> val.back_color, can_view_timetable |-> val.can_view_timetable,
     room_capacity |-> val.room_capacity, fore_color |-> val.fore_color]
into_room(val) ==
    [id |-> val.id, name |-> val.name, long_name |-> val.long_name,
     displayname |-> val.displayname, alternatename |-> val.alternatename,
     can_view_timetable |-> val.can_view_timetable, room_capacity |-> val.room_capacity]

\* Option::map(|t| t.into())
map_into_teacher(o) == IF IsSome(o) THEN Some(into_teacher(o.some)) ELSE None
map_into_subject(o) == IF IsSome(o) THEN Some(into_subject(o.some)) ELSE None
map_into_room(o) == IF IsSome(o) THEN Some(into_room(o.some)) ELSE None

\* a lookup that answers with any entry of the map when the id has none
hash_get_any(map, k) ==
    IF k \in DOMAIN map THEN Some(map[k])
    ELSE IF DOMAIN map # {} THEN Some(map[CHOOSE x \in DOMAIN map : TRUE])
    ELSE None

\* lines 521-523, 541-543, 578-580: the lookup of the current id
lookup(map, id) == hash_get(map, id)

\* lines 520-539
make_teacher(element, t, id, original_id, state) ==
    LET teacher_info == lookup(t, id) IN
    IF ~IsSome(teacher_info) THEN Err
    ELSE LET missing == req_bool(element, "missing") IN
         IF ~IsOk(missing) THEN Err
         ELSE Ok([id |-> id,
                  original_teacher_id |-> original_id,
                  original_teacher |-> map_into_teacher(hash_get(t, original_id)),
                  state |-> state,
                  missing |-> missing.ok,
                  name |-> teacher_info.some.name,
                  can_view_timetable |-> teacher_info.some.can_view_timetable,
                  extern_key |-> teacher_info.some.extern_key,
                  room_capacity |-> teacher_info.some.room_capacity])

\* lines 540-576
make_subject(element, s, id, original_id, state) ==
    LET subject_info == lookup(s, id) IN
    IF ~IsSome(subject_info) THEN Err
    ELSE LET missing == req_bool(element, "missing")
             back == get(element, "backColor")
             back_color == IF ~IsSome(back) THEN Ok(subject_info.some.back_color)
                           ELSE LET x == as_str(back.some) IN
                                IF IsSome(x) THEN Ok(x.some) ELSE Err
             fore == get(element, "foreColor")
             fore_color == IF ~IsSome(fore) THEN Ok(None)
                           ELSE LET x == as_str(fore.some) IN
                                IF IsSome(x) THEN Ok(Some(x.some)) ELSE Err
         IN IF ~(IsOk(missing) /\ IsOk(back_color) /\ IsOk(fore_color)) THEN Err
            ELSE Ok([id |-> id,
                     original_subject_id |-> original_id,
                     original_subject |-> map_into_subject(hash_get(s, original_id)),
                     missing |-> missing.ok,
                     state |-> state,
                     name |-> subject_info.some.name,
                     long_name |-> subject_info.some.long_name,
                     display_name |-> subject_info.some.display_name,
                     alternate_name |-> subject_info.some.alternate_name,
                     back_color |-> back_color.ok,
                     can_view_timetable |-> subject_info.some.can_view_timetable,
                     room_capacity |-> subject_info.some.room_capacity,
                     fore_color |-> fore_color.ok])

\* lines 577-598
make_room(element, r, id, original_id, state) ==
    LET room_info == lookup(r, id) IN
    IF ~IsSome(room_info) THEN Err
    ELSE LET missing == req_bool(element, "missing") IN
         IF ~IsOk(missing) THEN Err
         ELSE Ok([id |-> id,
                  original_room_id |-> original_id,
                  original_room |-> map_into_room(hash_get(r, original_id)),
                  missing |-> missing.ok,
                  state |-> state,
                  name |-> room_info.some.name,
                  long_name |-> room_info.some.long_name,
                  displayname |-> room_info.some.displayname,
                  alternatename |-> room_info.some.alternatename,
                  can_view_timetable |-> room_info.some.can_view_timetable,
                  room_capacity |-> room_info.some.room_capacity])

\* the assignment loop as lenient as the catalog loop: an unknown tag is skipped
parse_assignment_lenient(element, t, s, r, cur) ==
    LET type_ == req_u64(element, "type")
        id == req_u64(element, "id")
        original_id == req_u64(element, "orgId")
        state == element_state(element)
    IN IF ~(IsOk(type_) /\ IsOk(id) /\ IsOk(original_id) /\ IsOk(state)) THEN Err
       ELSE CASE type_.ok = 2 ->
                   LET x == make_teacher(element, t, id.ok, original_id.ok, state.ok) IN
                   IF IsOk(x) THEN Ok([cur EXCEPT !.teacher = Some(x.ok)]) ELSE Err
              [] type_.ok = 3 ->
                   LET x == make_subject(element, s, id.ok, original_id.ok, state.ok) IN
                   IF IsOk(x) THEN Ok([cur EXCEPT !.subject = Some(x.ok)]) ELSE Err
              [] type_.ok = 4 ->
                   LET x == make_room(element, r, id.ok, original_id.ok, state.ok) IN
                   IF IsOk(x) THEN Ok([cur EXCEPT !.room = Some(x.ok)]) ELSE Err
              [] OTHER -> Ok(cur)

\* the first assignment of a kind kept instead of the last
parse_assignment_first_wins(element, t, s, r, cur) ==
    LET type_ == req_u64(element, "type")
        id == req_u64(element, "id")
        original_id == req_u64(element, "orgId")
        state == element_state(element)
    IN IF ~(IsOk(type_) /\ IsOk(id) /\ IsOk(original_id) /\ IsOk(state)) THEN Err
       ELSE CASE type_.ok = 2 ->
                   LET x == make_teacher(element, t, id.ok, original_id.ok, state.ok) IN
                   IF ~IsOk(x) THEN Err
                   ELSE IF IsSome(cur.teacher) THEN Ok(cur)
                   ELSE Ok([cur EXCEPT !.teacher = Some(x.ok)])
              [] type_.ok = 3 ->
                   LET x == make_subject(element, s, id.ok, original_id.ok, state.ok) IN
                   IF ~IsOk(x) THEN Err
                   ELSE IF IsSome(cur.subject) THEN Ok(cur)
                   ELSE Ok([cur EXCEPT !.subject = Some(x.ok)])
              [] type_.ok = 4 ->
                   LET x == make_room(element, r, id.ok, original_id.ok, state.ok) IN
                   IF ~IsOk(x) THEN Err
                   ELSE IF IsSome(cur.room) THEN Ok(cur)
                   ELSE Ok([cur EXCEPT !.room = Some(x.ok)])
              [] OTHER -> Err

\* lines 493-600: one iteration of the assignment loop; cur holds the three
\* Options room, teacher, subject of the period being built
parse_assignment(element, t, s, r, cur) ==
    LET type_ == req_u64(element, "type")
        id == req_u64(element, "id")
        original_id == req_u64(element, "orgId")
        state == element_state(element)
    IN IF ~(IsOk(type_) /\ IsOk(id) /\ IsOk(original_id) /\ IsOk(state)) THEN Err
       ELSE CASE type_.ok = 2 ->
                   LET x == make_teacher(element, t, id.ok, original_id.ok, state.ok) IN
                   IF IsOk(x) THEN Ok([cur EXCEPT !.teacher = Some(x.ok)]) ELSE Err
              [] type_.ok = 3 ->
                   LET x == make_subject(element, s, id.ok, original_id.ok, state.ok) IN
                   IF IsOk(x) THEN Ok([cur EXCEPT !.subject = Some(x.ok)]) ELSE Err
              [] type_.ok = 4 ->
                   LET x == make_room(element, r, id.ok, original_id.ok, state.ok) IN
                   IF IsOk(x) THEN Ok([cur EXCEPT !.room = Some(x.ok)]) ELSE Err
              [] OTHER -> Err

\* lines 603-613
period_state(p) ==
    LET st == req_str(p, "cellState") IN
    IF ~IsOk(st) THEN Err
    ELSE CASE st.ok = "CANCEL" -> Ok("Cancel")
           [] st.ok = "STANDARD" -> Ok("Standard")
           [] st.ok = "SUBSTITUTION" -> Ok("Substitution")
           [] OTHER -> Err

\* lines 639-647
period_date(p) ==
    LET d == req_u64(p, "date") IN
    IF ~IsOk(d) THEN Err ELSE parse_from_str(to_string(d.ok))

\* lines 648-657
period_time(p, key) ==
    LET v == get(p, key) IN
    IF ~IsSome(v) THEN Err
    ELSE LET t == json_value_to_time(v.some) IN
         IF IsOk(t) THEN t ELSE Err

\* a record whose fields do not decode yields a Period of defaults
build_period_lenient(p, cur) ==
    Ok([lesson_text |-> "", text |-> "", info |-> "", substitution_text |-> "",
        date |-> ymd(1970, 1, 1), start_time |-> hm(0, 0), end_time |-> hm(0, 0),
        state |-> "Standard",
        teacher |-> cur.teacher, subject |-> cur.subject, room |-> cur.room])

\* lines 603-662: the Period pushed for a record whose assignments are cur
build_period(p, cur) ==
    LET st == period_state(p)
        lesson == req_str(p, "lessonText")
        txt == req_str(p, "periodText")
        info == req_str(p, "periodInfo")
        subst == req_str(p, "substText")
        date == period_date(p)
        start == period_time(p, "startTime")
        end == period_time(p, "endTime")
    IN IF ~(IsOk(st) /\ IsOk(lesson) /\ IsOk(txt) /\ IsOk(info) /\ IsOk(subst)
            /\ IsOk(date) /\ IsOk(start) /\ IsOk(end))
       THEN Err
       ELSE Ok([lesson_text |-> lesson.ok, text |-> txt.ok, info |-> info.ok,
                substitution_text |-> subst.ok, date |-> date.ok,
                start_time |-> start.ok, end_time |-> end.ok, state |-> st.ok,
                teacher |-> cur.teacher, subject |-> cur.subject, room |-> cur.room])

---------------------------------------------------------------------------
(* parse_timetable as a function of the whole document *)

\* A local of the code is bound once: CHOOSE y \in {body : x \in {value}} : TRUE
\* is body with x standing for the value, the only element of a one-element set.

\* lines 440-470: the catalog loop over an array
RECURSIVE parse_elements(_, _, _, _)
parse_elements(elements, t, s, r) ==
    IF elements = <<>> THEN Ok([teachers |-> t, subjects |-> s, rooms |-> r])
    ELSE CHOOSE y \in
           { IF IsOk(x)
             THEN parse_elements(Tail(elements), x.ok.teachers, x.ok.subjects, x.ok.rooms)
             ELSE Err
             : x \in {parse_element(Head(elements), t, s, r)} } : TRUE

\* lines 492-601: the assignment loop over a period record's elements
RECURSIVE parse_assignments(_, _, _, _, _)
parse_assignments(elements, t, s, r, cur) ==
    IF elements = <<>> THEN Ok(cur)
    ELSE CHOOSE y \in
           { IF IsOk(x) THEN parse_assignments(Tail(elements), t, s, r, x.ok) ELSE Err
             : x \in {parse_assignment(Head(elements), t, s, r, cur)} } : TRUE

\* lines 483-662: one iteration of the period loop
parse_period(p, t, s, r) ==
    LET elements == period_elements(p) IN
    IF ~IsOk(elements) THEN Err
    ELSE CHOOSE y \in
           { IF IsOk(cur) THEN build_period(p, cur.ok) ELSE Err
             : cur \in {parse_assignments(elements.ok.arr, t, s, r,
                                          [room |-> None, teacher |-> None, subject |-> None])} }
           : TRUE

\* lines 482-663: the period loop
RECURSIVE parse_periods(_, _, _, _, _)
parse_periods(periods, t, s, r, acc) ==
    IF periods = <<>> THEN Ok(acc)
    ELSE CHOOSE y \in
           { IF IsOk(x) THEN parse_periods(Tail(periods), t, s, r, Append(acc, x.ok)) ELSE Err
             : x \in {parse_period(Head(periods), t, s, r)} } : TRUE

\* lines 472-665: from the period lookup to the return
parse_rest(d, person, t, s, r) ==
    CHOOSE y \in
      { IF ~IsOk(periods) THEN Err ELSE parse_periods(periods.ok.arr, t, s, r, <<>>)
        : periods \in {get_periods(d, person)} } : TRUE

\* lines 440-665: the outcome of the catalog loop, then the rest of the function
parse_maps(d, person, maps) ==
    IF ~IsOk(maps) THEN Err
    ELSE parse_rest(d, person, maps.ok.teachers, maps.ok.subjects, maps.ok.rooms)

\* lines 421-666
parse_timetable(doc, person) ==
    CHOOSE y \in
      { IF ~IsOk(d) THEN Err
        ELSE CHOOSE z \in { parse_maps(d.ok, person, maps)
                            : maps \in {parse_elements(d.ok.elements.arr, <<>>, <<>>, <<>>)} }
                  : TRUE
        : d \in {navigate(doc)} } : TRUE

---------------------------------------------------------------------------
(* speakable, lines 707-714: sort_by_key, the iterator chain and join *)

date_lt(a, b) ==
    \/ a.year < b.year
    \/ a.year = b.year /\ a.month < b.month
    \/ a.year = b.year /\ a.month = b.month /\ a.day < b.day
time_lt(a, b) ==
    \/ a.hour < b.hour
    \/ a.hour = b.hour /\ a.minute < b.minute
    \/ a.hour = b.hour /\ a.minute = b.minute /\ a.second < b.second

\* the sort key NaiveDateTime::new(period.date, period.start_time) and its order
key(p) == [date |-> p.date, time |-> p.start_time]
key_lt(a, b) == date_lt(a.date, b.date) \/ (a.date = b.date /\ time_lt(a.time, b.time))

\* x put behind every element whose key is not greater: equal keys keep their order
RECURSIVE insert_sorted(_, _)
insert_sorted(sorted, x) ==
    IF sorted = <<>> THEN <<x>>
    ELSE IF key_lt(key(x), key(Head(sorted))) THEN <<x>> \o sorted
    ELSE <<Head(sorted)>> \o insert_sorted(Tail(sorted), x)

\* x put before the first element whose key is not smaller: equal keys swap
RECURSIVE insert_before_equal(_, _)
insert_before_equal(sorted, x) ==
    IF sorted = <<>> THEN <<x>>
    ELSE IF ~key_lt(key(Head(sorted)), key(x)) THEN <<x>> \o sorted
    ELSE <<Head(sorted)>> \o insert_before_equal(Tail(sorted), x)

RECURSIVE sort_unstable(_)
sort_unstable(v) ==
    IF v = <<>> THEN <<>>
    ELSE insert_before_equal(sort_unstable(SubSeq(v, 1, Len(v) - 1)), v[Len(v)])

\* Vec::sort_by_key: a stable sort, ascending
RECURSIVE sort_by_key(_)
sort_by_key(v) ==
    IF v = <<>> THEN <<>>
    ELSE insert_sorted(sort_by_key(SubSeq(v, 1, Len(v) - 1)), v[Len(v)])

\* [String]::join(sep)
RECURSIVE join(_, _)
join(v, sep) ==
    IF v = <<>> THEN ""
    ELSE IF Len(v) = 1 THEN v[1]
    ELSE v[1] \o sep \o join(Tail(v), sep)

\* the calendar day after d, what Local::now().date_naive() returns once midnight has passed
tomorrow(d) ==
    IF d.day < DaysInMonth(d.year, d.month) THEN ymd(d.year, d.month, d.day + 1)
    ELSE IF d.month < 12 THEN ymd(d.year, d.month + 1, 1)
    ELSE ymd(d.year + 1, 1, 1)

---------------------------------------------------------------------------
(* Idle values of the variables a specification does not use *)

TimeIdle == value = None /\ time = None
TextIdle == period = None /\ text = None
ParseIdle ==
    /\ teachers = <<>> /\ subjects = <<>> /\ rooms = <<>>
    /\ room = None /\ teacher = None /\ subject = None
    /\ serialized_periods = <<>> /\ result = None
    /\ data = None /\ person_id = 0 /\ nelements = 0
    /\ source = <<>> /\ malformed = FALSE /\ unresolved = None
RenderIdle ==
    /\ timetable = <<>> /\ today = None /\ lines = <<>> /\ output = None /\ cursor = 0
    /\ input = <<>> /\ started = None /\ readings = <<>> /\ rendered = <<>>

ExtractIdle == payload = None /\ consumed = 0
HandlerIdle == userinfo = None /\ session = "none" /\ requests = <<>> /\ steps = <<>>

timeVars == <<value, time>>
textVars == <<period, text>>
parseVars == <<teachers, subjects, rooms, room, teacher, subject,
               serialized_periods, result, data, person_id, nelements, source, malformed,
               unresolved>>
renderVars == <<timetable, today, lines, output, cursor, input, started, readings, rendered>>
extractVars == <<payload, consumed>>
handlerVars == <<userinfo, session, requests, steps>>

---------------------------------------------------------------------------
(* SpecTime: json_value_to_time applied to one JSON value *)

MaxTimeValue == 10000

TimeValues ==
    {Num(n) : n \in 0..MaxTimeValue} \cup {Num(-1), Str("0800"), Bool(TRUE)}

InitTime ==
    /\ pc = "time"
    /\ value \in TimeValues
    /\ time = None
    /\ TextIdle /\ ParseIdle /\ RenderIdle /\ ExtractIdle /\ HandlerIdle

DecodeTime ==
    /\ pc = "time"
    /\ time' = json_value_to_time(value)
    /\ pc' = "done"
    /\ UNCHANGED <<value, textVars, parseVars, extractVars, handlerVars, renderVars>>

NextTime == DecodeTime

SpecTime == InitTime /\ [][NextTime]_vars

\* the number of decimal digits of n
RECURSIVE DecimalDigits(_)
DecimalDigits(n) == IF n < 10 THEN 1 ELSE 1 + DecimalDigits(n \div 10)

\* C5: on a non-negative integer n, json_value_to_time succeeds exactly when n
\* has 3 or 4 decimal digits, n div 100 <= 23 and n mod 100 <= 59, and then
\* returns hour n div 100, minute n mod 100 (second 0); every other n gives an
\* error, never a panic.
C5_TimeDecoding ==
    (pc = "done" /\ IsSome(as_u64(value))) =>
        LET n == value.num IN
        /\ time # Panic
        /\ IsOk(time) <=> (/\ DecimalDigits(n) \in {3, 4}
                           /\ n \div 100 <= 23
                           /\ n % 100 <= 59)
        /\ IsOk(time) => time.ok = [hour |-> n \div 100, minute |-> n % 100, second |-> 0]
        /\ ~IsOk(time) => time = Err

\* 900 has been decoded to 09:00
C5_Witness ==
    /\ pc = "done"
    /\ value = Num(900)
    /\ time = Ok([hour |-> 9, minute |-> 0, second |-> 0])

---------------------------------------------------------------------------
(* Payloads.  The entries of the JSON arrays are drawn one at a time by the
   loop that reads them, and a period record's fields when the code gets to
   them; Arr(<<>>) stands for an array whose entries are still to be read. *)

TeacherName(id) == IF id = 1 THEN "Müller" ELSE "Schmidt"
SubjectLong(id) == IF id = 1 THEN "Mathematik" ELSE "Physik"
RoomLong(id) == IF id = 1 THEN "Raum 101" ELSE "Raum 102"

TeacherJson(id) ==
    [type |-> Num(2), id |-> Num(id), name |-> Str(TeacherName(id)),
     canViewTimetable |-> Bool(FALSE), externKey |-> Str(""), roomCapacity |-> Num(0)]
SubjectJson(id) ==
    [type |-> Num(3), id |-> Num(id), name |-> Str("F"), longName |-> Str(SubjectLong(id)),
     displayname |-> Str("F"), alternatename |-> Str(""), backColor |-> Str("#fff"),
     canViewTimetable |-> Bool(FALSE), roomCapacity |-> Num(0)]
RoomJson(id) ==
    [type |-> Num(4), id |-> Num(id), name |-> Str("R"), longName |-> Str(RoomLong(id)),
     displayname |-> Str("R"), alternatename |-> Str(""),
     canViewTimetable |-> Bool(FALSE), roomCapacity |-> Num(30)]
\* type 1 is a class ("Klasse"): no kind the catalog keeps
ClassJson(id) == [type |-> Num(1), id |-> Num(id), name |-> Str("10a")]

AssignJson(t, id, org, st) ==
    [type |-> Num(t), id |-> Num(id), orgId |-> Num(org), state |-> Str(st),
     missing |-> Bool(FALSE)]

PeriodJson(cs, subst, date, start, end) ==
    [cellState |-> Str(cs), lessonText |-> Str(""), periodText |-> Str(""),
     periodInfo |-> Str(""), substText |-> Str(subst), date |-> Num(date),
     startTime |-> Num(start), endTime |-> Num(end)]

Without(o, k) == [x \in DOMAIN o \ {k} |-> o[x]]
With(o, k, v) == [x \in DOMAIN o \cup {k} |-> IF x = k THEN v ELSE o[x]]
WrongType(v) == IF "str" \in DOMAIN v THEN Num(0) ELSE Str("x")
\* o with one key dropped, or one value of the wrong JSON type
Defects(o) ==
    {Without(o, k) : k \in DOMAIN o} \cup {With(o, k, WrongType(o[k])) : k \in DOMAIN o}

PersonIds == {7}

DataShapes ==
    { [elements |-> Arr(<<>>), elementPeriods |-> ("7" :> Arr(<<>>))],
      [elements |-> Arr(<<>>), elementPeriods |-> ("8" :> Arr(<<>>))],
      [elements |-> Arr(<<>>), elementPeriods |-> ("7" :> Str("x"))],
      [elements |-> Arr(<<>>)],
      [elements |-> Str("x"), elementPeriods |-> ("7" :> Arr(<<>>))],
      [elementPeriods |-> ("7" :> Arr(<<>>))] }
Documents ==
    {[data |-> [result |-> [data |-> d]]] : d \in DataShapes}
        \cup {Num(0), [data |-> Num(0)], [data |-> [result |-> Num(0)]]}

PeriodHeads == {[elements |-> Arr(<<>>)], [elements |-> Str("x")], [cellState |-> Str("CANCEL")]}

GoodPeriods ==
    { PeriodJson("CANCEL", "", 20231106, 800, 850),
      PeriodJson("STANDARD", "", 20231106, 945, 1030),
      PeriodJson("SUBSTITUTION", "Vertretung", 20231107, 1000, 1050) }
BadPeriods ==
    Defects(PeriodJson("CANCEL", "", 20231106, 800, 850))
        \cup { PeriodJson("IRREGULAR", "", 20231106, 800, 850),
               PeriodJson("CANCEL", "", 20231332, 800, 850),
               PeriodJson("CANCEL", "", 20230230, 800, 850),
               PeriodJson("CANCEL", "", 20231106, 2460, 850),
               PeriodJson("CANCEL", "", 20231106, 30000, 850),
               PeriodJson("CANCEL", "", 20231106, 800, 5),
               With(PeriodJson("CANCEL", "", 20231106, 800, 850), "date", Num(-1)) }

\* SpecParse: few kinds of well-formed entries, every kind of malformed one
LeanElements ==
    {TeacherJson(1), SubjectJson(1), ClassJson(1)}
        \cup Defects(TeacherJson(1)) \cup Defects(SubjectJson(1)) \cup Defects(RoomJson(1))
        \cup {With(TeacherJson(1), "id", Num(-1)), Without(ClassJson(1), "id")}
LeanAssignments ==
    {AssignJson(2, 1, 1, "REGULAR"), AssignJson(3, 1, 1, "REGULAR")}
        \cup Defects(AssignJson(2, 1, 1, "REGULAR"))
        \cup { AssignJson(2, 1, 1, "IRREGULAR"), AssignJson(5, 1, 1, "REGULAR"),
               AssignJson(4, 1, 1, "REGULAR"), AssignJson(2, 2, 1, "REGULAR"),
               With(AssignJson(3, 1, 1, "REGULAR"), "backColor", Num(0)),
               With(AssignJson(3, 1, 1, "REGULAR"), "foreColor", Num(0)) }
LeanPeriods == GoodPeriods \cup BadPeriods

\* SpecPeriod: every combination of kind, ids and state in one period record
RichElements ==
    {TeacherJson(1), TeacherJson(2), RoomJson(1), RoomJson(2), SubjectJson(1), ClassJson(1)}
        \cup {Without(TeacherJson(1), "name")}
RichAssignments ==
    {AssignJson(t, i, o, st) : t \in {2, 4}, i \in {1, 2}, o \in {1, 2},
                               st \in {"ABSENT", "REGULAR", "SUBSTITUTED"}}
        \cup {AssignJson(3, i, 1, "REGULAR") : i \in {1, 2}}
        \cup { AssignJson(5, 1, 1, "REGULAR"),
               With(AssignJson(3, 1, 1, "REGULAR"), "backColor", Str("#f00")),
               Without(AssignJson(2, 1, 1, "REGULAR"), "missing") }
RichPeriods == GoodPeriods \cup {PeriodJson("IRREGULAR", "", 20231106, 800, 850)}

---------------------------------------------------------------------------
(* History: whether an entry that was read is malformed, stated on the JSON *)

HasNum(o, k) == k \in DOMAIN o /\ "num" \in DOMAIN o[k] /\ o[k].num >= 0
HasStr(o, k) == k \in DOMAIN o /\ "str" \in DOMAIN o[k]
HasBool(o, k) == k \in DOMAIN o /\ "bool" \in DOMAIN o[k]
HasNo(o, k) == k \notin DOMAIN o

ValidClock(n) == n >= 100 /\ n <= 9999 /\ n \div 100 <= 23 /\ n % 100 <= 59
ValidYmd(n) ==
    /\ n >= 10000101 /\ n <= 99991231
    /\ (n \div 100) % 100 \in 1..12
    /\ n % 100 \in 1..DaysInMonth(n \div 10000, (n \div 100) % 100)

WellFormedElement(e) ==
    /\ HasNum(e, "type") /\ HasNum(e, "id")
    /\ e.type.num = 2 =>
          /\ HasStr(e, "name") /\ HasBool(e, "canViewTimetable")
          /\ HasStr(e, "externKey") /\ HasNum(e, "roomCapacity")
    /\ e.type.num \in {3, 4} =>
          /\ HasStr(e, "name") /\ HasStr(e, "longName") /\ HasStr(e, "displayname")
          /\ HasStr(e, "alternatename") /\ HasBool(e, "canViewTimetable")
          /\ HasNum(e, "roomCapacity")
    /\ e.type.num = 3 =>
          /\ HasStr(e, "backColor")
          /\ HasNo(e, "foreColor") \/ HasStr(e, "foreColor")

WellFormedAssignment(e, t, s, r) ==
    /\ HasNum(e, "type") /\ HasNum(e, "id") /\ HasNum(e, "orgId")
    /\ HasStr(e, "state") /\ e.state.str \in {"ABSENT", "REGULAR", "SUBSTITUTED"}
    /\ HasBool(e, "missing")
    /\ e.type.num \in {2, 3, 4}
    /\ e.type.num = 2 => e.id.num \in DOMAIN t
    /\ e.type.num = 3 => e.id.num \in DOMAIN s
    /\ e.type.num = 4 => e.id.num \in DOMAIN r
    /\ e.type.num = 3 =>
          /\ HasNo(e, "backColor") \/ HasStr(e, "backColor")
          /\ HasNo(e, "foreColor") \/ HasStr(e, "foreColor")

\* a teacher, subject or room element whose id the map of its kind does not have
Unresolved(e, t, s, r) ==
    /\ HasNum(e, "type") /\ HasNum(e, "id")
    /\ \/ e.type.num = 2 /\ e.id.num \notin DOMAIN t
       \/ e.type.num = 3 /\ e.id.num \notin DOMAIN s
       \/ e.type.num = 4 /\ e.id.num \notin DOMAIN r

WellFormedPeriod(p) ==
    /\ HasStr(p, "cellState") /\ p.cellState.str \in {"CANCEL", "STANDARD", "SUBSTITUTION"}
    /\ HasStr(p, "lessonText") /\ HasStr(p, "periodText")
    /\ HasStr(p, "periodInfo") /\ HasStr(p, "substText")
    /\ HasNum(p, "date") /\ ValidYmd(p.date.num)
    /\ HasNum(p, "startTime") /\ ValidClock(p.startTime.num)
    /\ HasNum(p, "endTime") /\ ValidClock(p.endTime.num)

---------------------------------------------------------------------------
(* parse_timetable as a state machine *)

MaxPeriods == 2
MaxPeriodElements == 2

InitParse ==
    /\ pc = "navigate"
    /\ teachers = <<>> /\ subjects = <<>> /\ rooms = <<>>
    /\ room = None /\ teacher = None /\ subject = None
    /\ serialized_periods = <<>> /\ result = None
    /\ data = None /\ person_id \in PersonIds /\ nelements = 0
    /\ source = <<>> /\ malformed = FALSE /\ unresolved = None
    /\ TimeIdle /\ TextIdle /\ RenderIdle /\ ExtractIdle /\ HandlerIdle

otherVars == <<timeVars, textVars, renderVars, extractVars, handlerVars>>

\* return Err(..): every `?` and every explicit return Err of the function
Fail ==
    /\ result' = Err
    /\ pc' = "done"
    /\ UNCHANGED <<teachers, subjects, rooms, room, teacher, subject,
                   serialized_periods, data, person_id, nelements>>

Navigate ==
    /\ pc = "navigate"
    /\ \E doc \in Documents :
          LET d == navigate(doc) IN
          IF IsOk(d)
          THEN /\ data' = d.ok
               /\ pc' = "elements"
               /\ UNCHANGED <<teachers, subjects, rooms, room, teacher, subject,
                              serialized_periods, result, person_id, nelements>>
          ELSE Fail
    /\ UNCHANGED <<source, malformed, unresolved, otherVars>>

ParseElement(Elements) ==
    /\ pc = "elements"
    /\ \E element \in Elements :
          /\ LET x == parse_element(element, teachers, subjects, rooms) IN
             IF IsOk(x)
             THEN /\ teachers' = x.ok.teachers
                  /\ subjects' = x.ok.subjects
                  /\ rooms' = x.ok.rooms
                  /\ UNCHANGED <<pc, room, teacher, subject, serialized_periods, result,
                                 data, person_id, nelements>>
             ELSE Fail
          /\ malformed' = (malformed \/ ~WellFormedElement(element))
    /\ UNCHANGED <<source, unresolved, otherVars>>

GetPeriods ==
    /\ pc = "elements"
    /\ IF IsOk(get_periods(data, person_id))
       THEN /\ pc' = "periods"
            /\ UNCHANGED <<teachers, subjects, rooms, room, teacher, subject,
                           serialized_periods, result, data, person_id, nelements>>
       ELSE Fail
    /\ UNCHANGED <<source, malformed, unresolved, otherVars>>

BeginPeriod(maxPeriods) ==
    /\ pc = "periods"
    /\ Len(serialized_periods) < maxPeriods
    /\ \E p \in PeriodHeads :
          /\ IF IsOk(period_elements(p))
             THEN /\ room' = None /\ teacher' = None /\ subject' = None
                  /\ nelements' = 0
                  /\ pc' = "assignments"
                  /\ UNCHANGED <<teachers, subjects, rooms, serialized_periods, result,
                                 data, person_id>>
             ELSE Fail
          /\ malformed' = (malformed \/ ~("elements" \in DOMAIN p /\ "arr" \in DOMAIN p.elements))
    /\ UNCHANGED <<source, unresolved, otherVars>>

ParseAssignment(Assignments) ==
    /\ pc = "assignments"
    /\ nelements < MaxPeriodElements
    /\ \E element \in Assignments :
          /\ LET x == parse_assignment(element, teachers, subjects, rooms,
                                       [room |-> room, teacher |-> teacher, subject |-> subject])
             IN IF IsOk(x)
                THEN /\ room' = x.ok.room
                     /\ teacher' = x.ok.teacher
                     /\ subject' = x.ok.subject
                     /\ nelements' = nelements + 1
                     /\ UNCHANGED <<pc, teachers, subjects, rooms, serialized_periods,
                                    result, data, person_id>>
                ELSE Fail
          /\ malformed' = (malformed \/ ~WellFormedAssignment(element, teachers, subjects, rooms))
          /\ unresolved' = IF Unresolved(element, teachers, subjects, rooms)
                           THEN Some(element) ELSE unresolved
    /\ UNCHANGED <<source, otherVars>>

FinishPeriod(Periods) ==
    /\ pc = "assignments"
    /\ \E p \in Periods :
          /\ LET x == build_period(p, [room |-> room, teacher |-> teacher, subject |-> subject])
             IN IF IsOk(x)
                THEN /\ serialized_periods' = Append(serialized_periods, x.ok)
                     /\ room' = None /\ teacher' = None /\ subject' = None
                     /\ nelements' = 0
                     /\ pc' = "periods"
                     /\ UNCHANGED <<teachers, subjects, rooms, result, data, person_id>>
                ELSE Fail
          /\ source' = Append(source, p)
          /\ malformed' = (malformed \/ ~WellFormedPeriod(p))
    /\ UNCHANGED <<unresolved, otherVars>>

Return ==
    /\ pc = "periods"
    /\ result' = Ok(serialized_periods)
    /\ pc' = "done"
    /\ UNCHANGED <<teachers, subjects, rooms, room, teacher, subject, serialized_periods,
                   data, person_id, nelements, source, malformed, unresolved, otherVars>>

\* payloads of up to MaxPeriods period records
NextParse ==
    \/ Navigate
    \/ ParseElement(LeanElements)
    \/ GetPeriods
    \/ BeginPeriod(MaxPeriods)
    \/ ParseAssignment(LeanAssignments)
    \/ FinishPeriod(LeanPeriods)
    \/ Return

SpecParse == InitParse /\ [][NextParse]_vars

\* payloads of one period record, its assignments drawn from every combination
NextPeriod ==
    \/ Navigate
    \/ ParseElement(RichElements)
    \/ GetPeriods
    \/ BeginPeriod(1)
    \/ ParseAssignment(RichAssignments)
    \/ FinishPeriod(RichPeriods)
    \/ Return

SpecPeriod == InitParse /\ [][NextPeriod]_vars

---------------------------------------------------------------------------
(* Claims about parse_timetable *)

\* the Period a well-formed period record stands for, field by field
PeriodOf(p, per) ==
    /\ per.state = (CASE p.cellState.str = "CANCEL" -> "Cancel"
                      [] p.cellState.str = "STANDARD" -> "Standard"
                      [] OTHER -> "Substitution")
    /\ per.lesson_text = p.lessonText.str
    /\ per.text = p.periodText.str
    /\ per.info = p.periodInfo.str
    /\ per.substitution_text = p.substText.str
    /\ per.date = ymd(p.date.num \div 10000, (p.date.num \div 100) % 100, p.date.num % 100)
    /\ per.start_time = hm(p.startTime.num \div 100, p.startTime.num % 100)
    /\ per.end_time = hm(p.endTime.num \div 100, p.endTime.num % 100)

\* C1: parse_timetable returns an error or the complete Period list, never a
\* partial one: once any catalog element or period record that was read is
\* malformed (missing field, type mismatch, unknown state string, unresolved
\* current id, malformed date or time, unknown assignment tag) the result is
\* an error, however many periods were already built; a returned list holds
\* exactly one Period per period record read, in source order.
C1_AllOrNothing ==
    /\ pc = "done" => (result = Err \/ IsOk(result))
    /\ malformed => result = Err
    /\ IsOk(result) =>
          /\ Len(result.ok) = Len(source)
          /\ \A i \in 1..Len(source) : PeriodOf(source[i], result.ok[i])

\* the fields of the second period record were malformed after one Period had
\* been built, and the function returned the error
C1_Witness ==
    /\ pc = "done"
    /\ result = Err
    /\ Len(serialized_periods) = 1
    /\ Len(source) = 2
    /\ WellFormedPeriod(source[1])
    /\ ~WellFormedPeriod(source[2])

\* every assignment of a Period resolves in the map of its kind
Resolves(cur) ==
    /\ IsSome(cur.teacher) => cur.teacher.some.id \in DOMAIN teachers
    /\ IsSome(cur.subject) => cur.subject.some.id \in DOMAIN subjects
    /\ IsSome(cur.room) => cur.room.some.id \in DOMAIN rooms

\* C2: a teacher, subject or room assignment element whose current id has no
\* entry in the catalog map of that same kind makes extraction fail, whatever
\* the maps hold for other ids or under the same id for the other kinds; so
\* every assignment of a Period that is built or returned resolves in the map
\* of its kind.
C2_UnresolvedFails ==
    /\ IsSome(unresolved) => result = Err
    /\ Resolves([teacher |-> teacher, subject |-> subject, room |-> room])
    /\ \A i \in 1..Len(serialized_periods) : Resolves(serialized_periods[i])
    /\ IsOk(result) => \A i \in 1..Len(result.ok) : Resolves(result.ok[i])

\* a teacher element with id 2 was read while the teacher map had an entry
\* for id 1 only and the room map one for id 2: extraction failed
C2_Witness ==
    /\ pc = "done"
    /\ result = Err
    /\ IsSome(unresolved)
    /\ unresolved.some.type = Num(2)
    /\ unresolved.some.id = Num(2)
    /\ DOMAIN teachers = {1}
    /\ 2 \in DOMAIN rooms

\* C3 (as claimed): a teacher or room assignment whose current id equals its
\* original id renders an empty change clause, whatever its ElementState.
C3_UnchangedClauseEmpty ==
    IsOk(result) =>
        \A i \in 1..Len(result.ok) :
            LET p == result.ok[i] IN
            (p.state = "Substitution" /\ IsSome(p.subject)) =>
                /\ (IsSome(p.teacher) /\ p.teacher.some.id = p.teacher.some.original_teacher_id)
                      => teacher_clause(p) = ""
                /\ (IsSome(p.room) /\ p.room.some.id = p.room.some.original_room_id)
                      => room_clause(p) = ""

\* C4 (as claimed): the original snapshot of a teacher, subject or room assignment is
\* present only if the original id differs from the current id and resolves
\* in the map of that kind; an original id that does not resolve gives an
\* absent snapshot and no error.
C4_SnapshotOnlyIfDiffers ==
    IsOk(result) =>
        \A i \in 1..Len(result.ok) :
            LET p == result.ok[i] IN
            /\ IsSome(p.teacher) =>
                  LET t == p.teacher.some IN
                  /\ IsSome(t.original_teacher) =>
                        (t.original_teacher_id # t.id /\ t.original_teacher_id \in DOMAIN teachers)
                  /\ t.original_teacher_id \notin DOMAIN teachers => t.original_teacher = None
            /\ IsSome(p.subject) =>
                  LET s == p.subject.some IN
                  /\ IsSome(s.original_subject) =>
                        (s.original_subject_id # s.id /\ s.original_subject_id \in DOMAIN subjects)
                  /\ s.original_subject_id \notin DOMAIN subjects => s.original_subject = None
            /\ IsSome(p.room) =>
                  LET r == p.room.some IN
                  /\ IsSome(r.original_room) =>
                        (r.original_room_id # r.id /\ r.original_room_id \in DOMAIN rooms)
                  /\ r.original_room_id \notin DOMAIN rooms => r.original_room = None

---------------------------------------------------------------------------
(* SpecText: Period::speakable_text applied to one Period *)

\* the catalog entries the payloads above deserialize to
TeacherMap(ids) == [i \in ids |-> from_value_teacher(TeacherJson(i)).ok]
SubjectMap(ids) == [i \in ids |-> from_value_subject(SubjectJson(i)).ok]
RoomMap(ids) == [i \in ids |-> from_value_room(RoomJson(i)).ok]

\* assignments as make_teacher, make_room and make_subject build them: teacher
\* and room 2 standing in for 1, the original in the catalog or not
TextTeachers ==
    {None} \cup
    { Some(make_teacher(AssignJson(2, 2, 1, "REGULAR"), TeacherMap(ids), 2, 1, st).ok) :
          ids \in {{2}, {1, 2}}, st \in ElementStates }
TextRooms ==
    {None} \cup
    { Some(make_room(AssignJson(4, 2, 1, "REGULAR"), RoomMap(ids), 2, 1, st).ok) :
          ids \in {{2}, {1, 2}}, st \in ElementStates }
TextSubjects ==
    {None, Some(make_subject(AssignJson(3, 1, 1, "REGULAR"), SubjectMap({1}), 1, 1, "Regular").ok)}

TextPeriods ==
    { [lesson_text |-> "", text |-> "", info |-> "", substitution_text |-> note,
       date |-> ymd(2023, 11, 6), start_time |-> start, end_time |-> end, state |-> st,
       teacher |-> t, subject |-> s, room |-> r] :
          note \in {"", "Vertretung"}, start \in {hm(8, 0), hm(10, 0)},
          end \in {hm(8, 50), hm(14, 5)}, st \in PeriodStates,
          t \in TextTeachers, s \in TextSubjects, r \in TextRooms }

InitText ==
    /\ pc = "text"
    /\ period \in TextPeriods
    /\ text = None
    /\ TimeIdle /\ ParseIdle /\ RenderIdle /\ ExtractIdle /\ HandlerIdle

SpeakableText ==
    /\ pc = "text"
    /\ text' = speakable_text(period)
    /\ pc' = "done"
    /\ UNCHANGED <<period, timeVars, parseVars, extractVars, handlerVars, renderVars>>

NextText == SpeakableText

SpecText == InitText /\ [][NextText]_vars

\* a clock time as HH:MM, digit by digit
TwoDigits(n) == DigitStr(n \div 10) \o DigitStr(n % 10)
HHMM(t) == TwoDigits(t.hour) \o ":" \o TwoDigits(t.minute)

TeacherClauseDue(p) ==
    /\ IsSome(p.teacher)
    /\ p.teacher.some.state \in {"Absent", "Substituted"}
    /\ IsSome(p.teacher.some.original_teacher)
RoomClauseDue(p) ==
    /\ IsSome(p.room)
    /\ p.room.some.state \in {"Absent", "Substituted"}
    /\ IsSome(p.room.some.original_room)

ExpectedTeacherClause(p) ==
    IF ~TeacherClauseDue(p) THEN ""
    ELSE IF p.teacher.some.state = "Absent"
         THEN "Unterricht ohne Lehrer (von '" \o p.teacher.some.original_teacher.some.name \o "'); "
         ELSE "Lehrerwechsel von '" \o p.teacher.some.original_teacher.some.name \o "' zu '"
                  \o p.teacher.some.name \o "'; "
ExpectedRoomClause(p) ==
    IF ~RoomClauseDue(p) THEN ""
    ELSE IF p.room.some.state = "Absent"
         THEN "Unterricht ohne Raum (von '" \o p.room.some.original_room.some.long_name \o "'); "
         ELSE "Raumwechsel von '" \o p.room.some.original_room.some.long_name \o "' zu '"
                  \o p.room.some.long_name \o "'; "

\* C6: for a Substitution period with a Subject, speakable_text is the prefix
\* 'Änderung bei <subject long name> zwischen <start> und <end> Uhr: ', then
\* the teacher clause, then the room clause, then the substitution note
\* verbatim; a clause is non-empty exactly when the assignment is present,
\* its ElementState is Absent or Substituted and its original snapshot is
\* present (Absent names the original, Substituted the original then the
\* current), and the teacher clause comes before the room clause.
C6_SubstitutionText ==
    (pc = "done" /\ period.state = "Substitution" /\ IsSome(period.subject)) =>
        /\ text = "Änderung bei " \o period.subject.some.long_name \o " zwischen "
                      \o HHMM(period.start_time) \o " und " \o HHMM(period.end_time)
                      \o " Uhr: " \o ExpectedTeacherClause(period)
                      \o ExpectedRoomClause(period) \o period.substitution_text
        /\ (teacher_clause(period) # "") <=> TeacherClauseDue(period)
        /\ (room_clause(period) # "") <=> RoomClauseDue(period)

\* a substitution with both a teacher and a room change and a note
C6_Witness ==
    /\ pc = "done"
    /\ period.state = "Substitution"
    /\ text = "Änderung bei Mathematik zwischen 10:00 und 14:05 Uhr: "
                  \o "Lehrerwechsel von 'Müller' zu 'Schmidt'; "
                  \o "Raumwechsel von 'Raum 101' zu 'Raum 102'; Vertretung"

\* C7: for a Cancel period with a Subject, speakable_text is exactly
\* '<subject long name> fällt zwischen <start HH:MM> und <end HH:MM> Uhr aus!'
\* with zero-padded 24-hour times, whatever the teacher and room assignments,
\* their ElementStates and the substitution note are.
C7_CancelText ==
    (pc = "done" /\ period.state = "Cancel" /\ IsSome(period.subject)) =>
        text = period.subject.some.long_name \o " fällt zwischen "
                   \o HHMM(period.start_time) \o " und " \o HHMM(period.end_time)
                   \o " Uhr aus!"

\* a cancelled period that also has a substituted teacher, an absent room and
\* a note
C7_Witness ==
    /\ pc = "done"
    /\ period.state = "Cancel"
    /\ TeacherClauseDue(period) /\ period.teacher.some.state = "Substituted"
    /\ RoomClauseDue(period) /\ period.room.some.state = "Absent"
    /\ period.substitution_text = "Vertretung"
    /\ text = "Mathematik fällt zwischen 08:00 und 08:50 Uhr aus!"

---------------------------------------------------------------------------
(* SpecRender: the handler from the parsed list on (lines 706-714).  The
   iterator chain is lazy: each period goes through both filters and the map
   before the next one is taken, and the date filter calls Local::now() for
   each period that passed the state filter; the local date may change
   between two calls. *)

MaxTimetable == 3

FirstClockDay == ymd(2023, 11, 5)
LastClockDay == ymd(2023, 11, 7)
ClockDays == {FirstClockDay, tomorrow(FirstClockDay), LastClockDay}

RenderSubjects ==
    { None,
      Some(make_subject(AssignJson(3, 1, 1, "REGULAR"), SubjectMap({1}), 1, 1, "Regular").ok),
      Some(make_subject(AssignJson(3, 2, 2, "REGULAR"), SubjectMap({2}), 2, 2, "Regular").ok) }

RenderKinds ==
    { <<"Standard", SubjectLong(1)>>, <<"Cancel", SubjectLong(1)>>,
      <<"Substitution", SubjectLong(2)>>, <<"Cancel", "">> }

RenderSlots ==
    { <<ymd(2023, 11, 6), hm(8, 0)>>, <<ymd(2023, 11, 6), hm(10, 0)>>,
      <<ymd(2023, 11, 7), hm(8, 0)>> }

RenderPeriods ==
    { [lesson_text |-> "", text |-> "", info |-> "", substitution_text |-> "",
       date |-> slot[1], start_time |-> slot[2], end_time |-> hm(slot[2].hour, 45),
       state |-> kind[1],
       teacher |-> None,
       subject |-> CHOOSE s \in RenderSubjects :
                       IF kind[2] = "" THEN s = None
                       ELSE IsSome(s) /\ s.some.long_name = kind[2],
       room |-> None] :
          slot \in RenderSlots, kind \in RenderKinds }

InitRender ==
    /\ pc = "sort"
    /\ timetable \in UNION {[1..n -> RenderPeriods] : n \in 0..MaxTimetable}
    /\ today \in ClockDays
    /\ lines = <<>> /\ output = None /\ cursor = 0
    /\ input = timetable /\ started = today /\ readings = <<>> /\ rendered = <<>>
    /\ TimeIdle /\ TextIdle /\ ParseIdle /\ ExtractIdle /\ HandlerIdle

\* line 707
Sort ==
    /\ pc = "sort"
    /\ timetable' = sort_by_key(timetable)
    /\ cursor' = 1
    /\ pc' = "iterate"
    /\ UNCHANGED <<today, lines, output, input, started, readings, rendered,
                   timeVars, textVars, parseVars, extractVars, handlerVars>>

\* lines 709-713 for the next period: the state filter, the date filter with
\* its own reading of the clock, speakable_text, and the push of collect
Iterate ==
    /\ pc = "iterate"
    /\ cursor <= Len(timetable)
    /\ LET p == timetable[cursor] IN
       IF p.state # "Standard"
       THEN /\ readings' = Append(readings, today)
            /\ IF p.date = today
               THEN /\ lines' = Append(lines, speakable_text(p))
                    /\ rendered' = Append(rendered, p)
               ELSE UNCHANGED <<lines, rendered>>
       ELSE UNCHANGED <<readings, lines, rendered>>
    /\ cursor' = cursor + 1
    /\ UNCHANGED <<pc, timetable, today, output, input, started,
                   timeVars, textVars, parseVars, extractVars, handlerVars>>

\* line 714, once the iterator is exhausted
Join ==
    /\ pc = "iterate"
    /\ cursor > Len(timetable)
    /\ output' = Some(join(lines, "\n"))
    /\ pc' = "done"
    /\ UNCHANGED <<timetable, today, lines, cursor, input, started, readings, rendered,
                   timeVars, textVars, parseVars, extractVars, handlerVars>>

\* the local date changes while the request is being served
Midnight ==
    /\ pc \in {"sort", "iterate"}
    /\ date_lt(today, LastClockDay)
    /\ today' = tomorrow(today)
    /\ UNCHANGED <<pc, timetable, lines, output, cursor, input, started, readings, rendered,
                   timeVars, textVars, parseVars, extractVars, handlerVars>>

NextRender == Sort \/ Iterate \/ Join \/ Midnight

SpecRender == InitRender /\ [][NextRender]_vars

---------------------------------------------------------------------------
(* Claims about the sort/filter/render tail of speakable *)

Qualifies(p, d) == p.state # "Standard" /\ p.date = d

RECURSIVE Texts(_)
Texts(v) == IF v = <<>> THEN <<>> ELSE <<speakable_text(Head(v))>> \o Texts(Tail(v))

\* the periods of v that qualify for the date d, in the order of v
Qualifying(v, d) == SelectSeq(v, LAMBDA p : Qualifies(p, d))

WithKey(v, k) == SelectSeq(v, LAMBDA p : key(p) = k)

RECURSIVE IsSubseq(_, _)
IsSubseq(a, b) ==
    IF a = <<>> THEN TRUE
    ELSE IF b = <<>> THEN FALSE
    ELSE IF Head(a) = Head(b) THEN IsSubseq(Tail(a), Tail(b))
    ELSE IsSubseq(a, Tail(b))

\* C8: there is one reference date such that the output has exactly one line
\* for each period that is not Standard and has that date, none for any
\* other period, a period without a Subject giving an empty line; the lines
\* are joined with "\n", and the output is "" when no period qualifies.
C8_OneLinePerQualifying ==
    pc = "done" =>
        \E d \in {started} \cup {readings[i] : i \in DOMAIN readings} :
            /\ rendered = Qualifying(timetable, d)
            /\ lines = Texts(rendered)
            /\ output = Some(join(lines, "\n"))
            /\ (rendered = <<>> => output = Some(""))

\* C9: the lines are the renderings of periods in ascending (date, start
\* time) order, periods with the same (date, start time) in the relative
\* order they had in the list handed to the sort, and the output joins the
\* lines in that order.
C9_SortedStable ==
    pc \in {"iterate", "done"} =>
        /\ lines = Texts(rendered)
        /\ \A i, j \in DOMAIN rendered :
               i < j => ~key_lt(key(rendered[j]), key(rendered[i]))
        /\ \A i \in DOMAIN input :
               IsSubseq(WithKey(rendered, key(input[i])), WithKey(input, key(input[i])))
        /\ pc = "done" => output = Some(join(lines, "\n"))

\* C9 witness: three lines were rendered from a list that was not in order:
\* its first period has the latest key, and two different periods share the
\* earlier key.
C9_Witness ==
    /\ pc = "done" /\ Len(rendered) = 3 /\ Len(input) = 3
    /\ input[1] = rendered[3]
    /\ key(rendered[1]) = key(rendered[2]) /\ rendered[1] # rendered[2]
    /\ key_lt(key(rendered[2]), key(rendered[3]))
    /\ rendered[1] = input[2] /\ rendered[2] = input[3]

\* C10: every period of one invocation is compared against the same date
\* value, the output is the rendering of the list for that one date, and a
\* date that no period has yields the empty string.
C10_OneReferenceDate ==
    pc = "done" =>
        /\ \A i, j \in DOMAIN readings : readings[i] = readings[j]
        /\ \A d \in ClockDays :
               (\A i \in DOMAIN readings : readings[i] = d) =>
                   /\ lines = Texts(Qualifying(sort_by_key(input), d))
                   /\ output = Some(join(lines, "\n"))
                   /\ ((\A i \in DOMAIN input : input[i].date # d) => output = Some(""))

---------------------------------------------------------------------------
(* SpecExtract: parse_timetable on a whole document; the catalog loop takes
   the elements one by one, the rest of the function is one step *)

MaxCatalog == 3

CatalogElements ==
    { TeacherJson(1), TeacherJson(2), SubjectJson(1), ClassJson(1),
      With(ClassJson(1), "type", Num(5)),
      With(ClassJson(1), "type", Num(-1)),
      With(ClassJson(1), "id", Num(-1)),
      Without(ClassJson(1), "id"),
      Without(TeacherJson(1), "name") }

ExtractPeriodA ==
    With(PeriodJson("CANCEL", "", 20231106, 800, 850), "elements",
         Arr(<<AssignJson(2, 1, 1, "REGULAR"), AssignJson(3, 1, 1, "REGULAR")>>))
ExtractPeriodB ==
    With(PeriodJson("SUBSTITUTION", "Vertretung", 20231107, 1000, 1050), "elements",
         Arr(<<AssignJson(2, 2, 1, "SUBSTITUTED")>>))
ExtractPeriodLists ==
    {<<>>, <<ExtractPeriodA>>, <<ExtractPeriodB>>, <<ExtractPeriodA, ExtractPeriodB>>}

Document(elements, periods) ==
    [data |-> [result |-> [data |->
        [elements |-> Arr(elements), elementPeriods |-> ("7" :> Arr(periods))]]]]

ExtractDocuments ==
    { Document(es, ps) :
          es \in UNION {[1..n -> CatalogElements] : n \in 0..MaxCatalog},
          ps \in ExtractPeriodLists }
        \cup {[data |-> [result |-> Num(0)]]}

InitExtract ==
    /\ pc = "call"
    /\ payload \in ExtractDocuments
    /\ consumed = 0
    /\ teachers = <<>> /\ subjects = <<>> /\ rooms = <<>>
    /\ room = None /\ teacher = None /\ subject = None
    /\ serialized_periods = <<>> /\ result = None
    /\ data = None /\ person_id \in PersonIds /\ nelements = 0
    /\ source = <<>> /\ malformed = FALSE /\ unresolved = None
    /\ TimeIdle /\ TextIdle /\ RenderIdle /\ HandlerIdle

extractRest == <<source, malformed, unresolved, timeVars, textVars, renderVars, handlerVars,
                 payload>>

\* lines 426-439
ExtractNavigate ==
    /\ pc = "call"
    /\ LET d == navigate(payload) IN
       IF IsOk(d)
       THEN /\ data' = d.ok
            /\ pc' = "catalog"
            /\ UNCHANGED <<teachers, subjects, rooms, room, teacher, subject,
                           serialized_periods, result, person_id, nelements>>
       ELSE Fail
    /\ UNCHANGED <<consumed, extractRest>>

\* lines 440-470, one iteration
ExtractElement ==
    /\ pc = "catalog"
    /\ consumed < Len(data.elements.arr)
    /\ LET x == parse_element(data.elements.arr[consumed + 1], teachers, subjects, rooms) IN
       IF IsOk(x)
       THEN /\ teachers' = x.ok.teachers
            /\ subjects' = x.ok.subjects
            /\ rooms' = x.ok.rooms
            /\ consumed' = consumed + 1
            /\ UNCHANGED <<pc, room, teacher, subject, serialized_periods, result,
                           data, person_id, nelements>>
       ELSE Fail /\ UNCHANGED consumed
    /\ UNCHANGED extractRest

\* lines 472-665; serialized_periods is dropped on an error return
ExtractPeriods ==
    /\ pc = "catalog"
    /\ consumed = Len(data.elements.arr)
    /\ LET x == parse_rest(data, person_id, teachers, subjects, rooms) IN
       /\ result' = x
       /\ serialized_periods' = IF IsOk(x) THEN x.ok ELSE serialized_periods
    /\ pc' = "done"
    /\ UNCHANGED <<teachers, subjects, rooms, room, teacher, subject, data, person_id,
                   nelements, consumed, extractRest>>

NextExtract == ExtractNavigate \/ ExtractElement \/ ExtractPeriods

SpecExtract == InitExtract /\ [][NextExtract]_vars

\* a catalog element with an integer type tag outside {2,3,4} and an integer id
UnknownKind(e) ==
    /\ "type" \in DOMAIN e /\ "num" \in DOMAIN e.type /\ e.type.num \notin {2, 3, 4}
    /\ "id" \in DOMAIN e /\ "num" \in DOMAIN e.id

\* the same with both integers in the range of u64
UnknownKindU64(e) == UnknownKind(e) /\ e.type.num >= 0 /\ e.id.num >= 0

\* the catalog elements of the document
ElementsOf(doc) == doc.data.result.data.elements.arr

\* the document with the elements that Skip holds of removed
Removed(doc, Skip(_)) ==
    [data |-> [result |-> [data |->
        [doc.data.result.data EXCEPT
            !.elements = Arr(SelectSeq(ElementsOf(doc), LAMBDA e : ~Skip(e)))]]]]

\* the elements Skip holds of never fail, leave the maps as they are, and the
\* result is that of the document without them
Skipped(Skip(_)) ==
    IsOk(navigate(payload)) =>
        /\ pc = "catalog" =>
              LET taken == SubSeq(ElementsOf(payload), 1, consumed)
                  maps == parse_elements(SelectSeq(taken, LAMBDA e : ~Skip(e)), <<>>, <<>>, <<>>)
              IN /\ IsOk(maps)
                 /\ teachers = maps.ok.teachers
                 /\ subjects = maps.ok.subjects
                 /\ rooms = maps.ok.rooms
        /\ (pc = "done" /\ consumed < Len(ElementsOf(payload))) =>
              ~Skip(ElementsOf(payload)[consumed + 1])
        /\ pc = "done" => result = parse_timetable(Removed(payload, Skip), person_id)

\* C11 (as claimed): a catalog element whose type tag is an integer outside
\* {2,3,4} and whose id is an integer never makes extraction fail and leaves
\* the three maps unchanged; the elements after it are still inserted, and
\* the result equals that of the same payload with this element removed.
C11_UnknownTagSkipped == Skipped(UnknownKind)

\* C11 (amended): the same for a catalog element whose type tag is a
\* non-negative integer (a u64) outside {2,3,4} and whose id is a
\* non-negative integer (a u64).
C11_UnknownU64TagSkipped == Skipped(UnknownKindU64)

\* C11 witness: an element with tag 5 came first, the teacher and the subject
\* after it were still inserted, and the period that uses both was returned
C11_Witness ==
    /\ pc = "done" /\ IsOk(result) /\ Len(result.ok) = 1
    /\ Len(ElementsOf(payload)) = 3
    /\ UnknownKindU64(ElementsOf(payload)[1]) /\ ElementsOf(payload)[1].type.num = 5
    /\ DOMAIN teachers = {1} /\ DOMAIN subjects = {1} /\ DOMAIN rooms = {}
    /\ IsSome(result.ok[1].teacher) /\ IsSome(result.ok[1].subject)

---------------------------------------------------------------------------
(* SpecRecord: parse_timetable on documents with a full catalog whose last
   period record lists up to MaxAssignments assignment elements *)

MaxAssignments == 3

RecordCatalog == <<TeacherJson(1), TeacherJson(2), SubjectJson(1), RoomJson(1)>>

RecordAssignments ==
    { AssignJson(2, 1, 1, "REGULAR"), AssignJson(2, 2, 1, "SUBSTITUTED"),
      AssignJson(3, 1, 1, "REGULAR"),
      AssignJson(4, 1, 1, "REGULAR"), AssignJson(4, 1, 2, "ABSENT"),
      AssignJson(2, 1, 1, "IRREGULAR"),
      AssignJson(5, 1, 1, "REGULAR"), AssignJson(-1, 1, 1, "REGULAR"),
      With(AssignJson(2, 1, 1, "REGULAR"), "type", Str("2")) }

RecordPeriods ==
    { With(PeriodJson(cs, "Vertretung", 20231107, 1000, 1050), "elements", Arr(es)) :
          cs \in {"CANCEL", "STANDARD", "SUBSTITUTION"},
          es \in UNION {[1..n -> RecordAssignments] : n \in 0..MaxAssignments} }

RecordDocuments ==
    { Document(RecordCatalog, before \o <<p>>) :
          before \in {<<>>, <<ExtractPeriodA>>}, p \in RecordPeriods }

InitRecord ==
    /\ pc = "call"
    /\ payload \in RecordDocuments
    /\ consumed = 0
    /\ teachers = <<>> /\ subjects = <<>> /\ rooms = <<>>
    /\ room = None /\ teacher = None /\ subject = None
    /\ serialized_periods = <<>> /\ result = None
    /\ data = None /\ person_id \in PersonIds /\ nelements = 0
    /\ source = <<>> /\ malformed = FALSE /\ unresolved = None
    /\ TimeIdle /\ TextIdle /\ RenderIdle /\ HandlerIdle

SpecRecord == InitRecord /\ [][NextExtract]_vars

\* the period records of the requesting person in the document
RecordsOf(doc, person) == doc.data.result.data.elementPeriods[to_string(person)].arr

\* an assignment element whose type tag is not one of 2, 3, 4
UnknownAssignmentKind(e) ==
    "type" \in DOMAIN e /\ ~("num" \in DOMAIN e.type /\ e.type.num \in {2, 3, 4})

\* C12: extraction fails whenever an assignment element of a period record of
\* the requesting person has a type tag outside {2,3,4}, also when its id,
\* orgId and state are valid and whatever the cellState of the record is; no
\* Period of such a record, and no list at all, is returned.
C12_UnknownAssignmentFails ==
    pc = "done" =>
        LET records == RecordsOf(payload, person_id) IN
        (\E i \in DOMAIN records : \E j \in DOMAIN records[i].elements.arr :
             UnknownAssignmentKind(records[i].elements.arr[j]))
            => result = Err

\* C12 witness: the second record is STANDARD and lists a valid teacher and
\* then an element with tag 5 whose id, orgId and state are valid; the first
\* record was good; extraction failed
C12_Witness ==
    /\ pc = "done" /\ result = Err
    /\ Len(RecordsOf(payload, person_id)) = 2
    /\ LET p == RecordsOf(payload, person_id)[2] IN
       /\ p.cellState = Str("STANDARD")
       /\ p.elements.arr = <<AssignJson(2, 1, 1, "REGULAR"), AssignJson(5, 1, 1, "REGULAR")>>

\* the ElementState a state string stands for
StateOf(str) ==
    CASE str = "ABSENT" -> "Absent" [] str = "REGULAR" -> "Regular" [] OTHER -> "Substituted"

\* the last element of the array with type tag k, if there is one
LastOfKind(elements, k) ==
    LET idx == {i \in DOMAIN elements : elements[i].type = Num(k)} IN
    IF idx = {} THEN None
    ELSE Some(elements[CHOOSE i \in idx : \A j \in idx : j <= i])

\* C14: every returned Period has at most one room, one teacher and one
\* subject: each is the assignment of the last element of its kind in the
\* record, in source order, and is absent when the record has no element of
\* that kind; every element of the record was validated, also those that a
\* later one of the same kind replaced.
C14_LastOfKindKept ==
    IsOk(result) =>
        LET records == RecordsOf(payload, person_id) IN
        /\ Len(result.ok) = Len(records)
        /\ \A i \in DOMAIN records :
              LET elements == records[i].elements.arr
                  per == result.ok[i]
                  lt == LastOfKind(elements, 2)
                  ls == LastOfKind(elements, 3)
                  lr == LastOfKind(elements, 4)
              IN /\ \A j \in DOMAIN elements :
                        WellFormedAssignment(elements[j], teachers, subjects, rooms)
                 /\ IsSome(per.teacher) <=> IsSome(lt)
                 /\ IsSome(per.subject) <=> IsSome(ls)
                 /\ IsSome(per.room) <=> IsSome(lr)
                 /\ IsSome(lt) =>
                       /\ per.teacher.some.id = lt.some.id.num
                       /\ per.teacher.some.original_teacher_id = lt.some.orgId.num
                       /\ per.teacher.some.state = StateOf(lt.some.state.str)
                       /\ per.teacher.some.name = teachers[lt.some.id.num].name
                 /\ IsSome(ls) =>
                       /\ per.subject.some.id = ls.some.id.num
                       /\ per.subject.some.original_subject_id = ls.some.orgId.num
                       /\ per.subject.some.state = StateOf(ls.some.state.str)
                 /\ IsSome(lr) =>
                       /\ per.room.some.id = lr.some.id.num
                       /\ per.room.some.original_room_id = lr.some.orgId.num
                       /\ per.room.some.state = StateOf(lr.some.state.str)

\* C14 witness: a record lists teacher 1, then teacher 2, then a subject and
\* no room; the returned Period has teacher 2, the subject and no room
C14_Witness ==
    /\ pc = "done" /\ IsOk(result) /\ Len(result.ok) = 1
    /\ RecordsOf(payload, person_id)[1].elements.arr =
           <<AssignJson(2, 1, 1, "REGULAR"), AssignJson(2, 2, 1, "SUBSTITUTED"),
             AssignJson(3, 1, 1, "REGULAR")>>
    /\ result.ok[1].teacher.some.id = 2
    /\ result.ok[1].teacher.some.state = "Substituted"
    /\ IsSome(result.ok[1].subject)
    /\ result.ok[1].room = None

---------------------------------------------------------------------------
(* SpecHandler: the speakable request handler (lines 680-715) with the
   remote service: login, get_timetable, logout, parse_timetable, then the
   sort/filter/render tail.  What the service answers is drawn from the
   replies below; a logout that the service answered has ended the session. *)

UserInfos ==
    { [session_id |-> "A1B2", person_type |-> 5, person_id |-> 7, klasse_id |-> 1],
      [session_id |-> "C3D4", person_type |-> 5, person_id |-> 8, klasse_id |-> 1] }

\* the request failed in transit, the body is no JSON of the expected shape,
\* the id of the reply is not the id of the request, or the reply
SendError == [kind |-> "send_error"]
BadBody == [kind |-> "bad_body"]
IdMismatch == [kind |-> "id_mismatch"]
Reply(v) == [kind |-> "reply", result |-> v]

LoginReplies == {SendError, BadBody, IdMismatch, Reply(None)} \cup {Reply(Some(u)) : u \in UserInfos}
LogoutReplies == {SendError, BadBody, IdMismatch, Reply(None)}
HandlerDocuments ==
    { Document(<<TeacherJson(1), SubjectJson(1)>>, <<ExtractPeriodA>>),
      Document(<<TeacherJson(1), TeacherJson(2), SubjectJson(1)>>,
               <<ExtractPeriodB, ExtractPeriodA>>),
      Document(<<SubjectJson(1)>>, <<ExtractPeriodA>>),
      [data |-> [result |-> Num(0)]] }
TimetableReplies == {SendError, BadBody} \cup {Reply(doc) : doc \in HandlerDocuments}

\* lines 87-110
login(reply) ==
    CASE reply.kind = "send_error" -> Err
      [] reply.kind = "bad_body" -> Err
      [] reply.kind = "id_mismatch" -> Panic
      [] OTHER -> IF IsSome(reply.result) THEN Ok(reply.result.some) ELSE Err

\* lines 377-389
get_timetable(reply) ==
    CASE reply.kind = "send_error" -> Err
      [] reply.kind = "bad_body" -> Err
      [] OTHER -> Ok(reply.result)

\* lines 391-403
logout(reply) ==
    CASE reply.kind = "send_error" -> Err
      [] reply.kind = "bad_body" -> Err
      [] reply.kind = "id_mismatch" -> Panic
      [] OTHER -> Ok(None)

\* a failure ignored: the handler goes on to the next statement
unwrap_or_continue(r, next) == next

\* Result::unwrap in the handler: the position after the statement, or the panic
unwrap(r, next) == IF IsOk(r) THEN next ELSE "panicked"

InitHandler ==
    /\ pc = "login"
    /\ today \in ClockDays
    /\ timetable = <<>> /\ lines = <<>> /\ output = None /\ cursor = 0
    /\ input = <<>> /\ started = today /\ readings = <<>> /\ rendered = <<>>
    /\ TimeIdle /\ TextIdle /\ ParseIdle /\ ExtractIdle /\ HandlerIdle

handlerRest == <<timeVars, textVars, teachers, subjects, rooms, room, teacher, subject,
                 serialized_periods, data, person_id, nelements, source, malformed,
                 unresolved, consumed, today, lines, output, cursor, started, readings,
                 rendered>>

\* line 695
Login ==
    /\ pc = "login"
    /\ \E reply \in LoginReplies :
          LET r == login(reply) IN
          /\ userinfo' = IF IsOk(r) THEN Some(r.ok) ELSE None
          /\ session' = IF reply.kind = "id_mismatch"
                           \/ (reply.kind = "reply" /\ IsSome(reply.result))
                        THEN "open" ELSE session
          /\ pc' = unwrap(r, "get_timetable")
    /\ requests' = Append(requests, "authenticate")
    /\ steps' = Append(steps, "login")
    /\ UNCHANGED <<payload, result, timetable, input, handlerRest>>

\* line 699
GetTimetable ==
    /\ pc = "get_timetable"
    /\ \E reply \in TimetableReplies :
          LET r == get_timetable(reply) IN
          /\ payload' = IF IsOk(r) THEN r.ok ELSE payload
          /\ pc' = unwrap(r, "logout")
    /\ requests' = Append(requests, "timetable")
    /\ steps' = Append(steps, "get_timetable")
    /\ UNCHANGED <<userinfo, session, result, timetable, input, handlerRest>>

\* line 703
Logout ==
    /\ pc = "logout"
    /\ \E reply \in LogoutReplies :
          /\ session' = IF reply.kind = "send_error" THEN session ELSE "closed"
          /\ pc' = unwrap(logout(reply), "parse")
    /\ requests' = Append(requests, "logout")
    /\ steps' = Append(steps, "logout")
    /\ UNCHANGED <<userinfo, payload, result, timetable, input, handlerRest>>

\* line 706
Parse ==
    /\ pc = "parse"
    /\ LET r == parse_timetable(payload, IF IsSome(userinfo) THEN userinfo.some.person_id ELSE 0) IN
       /\ result' = r
       /\ timetable' = IF IsOk(r) THEN r.ok ELSE timetable
       /\ input' = IF IsOk(r) THEN r.ok ELSE input
       /\ pc' = unwrap(r, "sort")
    /\ steps' = Append(steps, "parse_timetable")
    /\ UNCHANGED <<userinfo, session, payload, requests, handlerRest>>

NextHandler == Login \/ GetTimetable \/ Logout \/ Parse \/ Sort \/ Iterate \/ Join \/ Midnight

SpecHandler == InitHandler /\ [][NextHandler]_vars

IsPrefix(a, b) == Len(a) <= Len(b) /\ a = SubSeq(b, 1, Len(a))

Issued(request) == \E i \in DOMAIN requests : requests[i] = request
Started(step) == \E i \in DOMAIN steps : steps[i] = step

\* C13: the steps run in the order login, timetable fetch, logout, parse,
\* sort/filter/render, each only after every earlier one succeeded; a logout
\* request is issued exactly when login and the fetch both succeeded; parsing
\* starts only after logout returned successfully, so that a parse failure
\* does not leave the session open; a failed login issues neither a fetch
\* nor a logout.
C13_StepOrder ==
    /\ IsPrefix(steps, <<"login", "get_timetable", "logout", "parse_timetable">>)
    /\ IsPrefix(requests, <<"authenticate", "timetable", "logout">>)
    /\ Started("get_timetable") => IsSome(userinfo)
    /\ Started("logout") => (IsSome(userinfo) /\ payload # None)
    /\ Issued("logout") <=> Started("logout")
    /\ (pc \in {"panicked", "done"} /\ IsSome(userinfo) /\ payload # None) => Issued("logout")
    /\ Started("parse_timetable") =>
          (Len(requests) = 3 /\ session = "closed" /\ result # None)
    /\ (pc = "panicked" /\ result = Err) => session = "closed"
    /\ pc \in {"sort", "iterate", "done"} => (Len(steps) = 4 /\ IsOk(result))
    /\ (pc = "panicked" /\ userinfo = None) => requests = <<"authenticate">>

\* C13 witness: login and the fetch succeeded, logout was answered, and then
\* parse_timetable failed: the handler panicked with the session closed
C13_Witness ==
    /\ pc = "panicked" /\ result = Err
    /\ steps = <<"login", "get_timetable", "logout", "parse_timetable">>
    /\ requests = <<"authenticate", "timetable", "logout">>
    /\ session = "closed"

=============================================================================
